---- MODULE Spec2Model ----
(***************************************************************************)
(* Model of backend/src/core/BlockchainIntegration.ts: the singleton that  *)
(* builds, signs and submits a provenance transaction to the registered    *)
(* ledger handler and mirrors accepted transactions into the transaction   *)
(* history service.                                                        *)
(*                                                                         *)
(* An async operation runs synchronously up to its first await, so one     *)
(* action models each stretch of code between two awaits:                  *)
(*   recordProduct*          lines 50-71   (up to await handler)           *)
(*   HandlerSettles          lines 71-79   (up to await history write)     *)
(*   HistorySettles          lines 81-87 + 271-273 (up to await lookup)    *)
(*   LookupSettles           lines 273-285 + 89-92                         *)
(* Strings of the program are strings here; the empty string stands for an *)
(* absent (undefined) optional string, which the code tests by truthiness. *)
(***************************************************************************)
EXTENDS Naturals, FiniteSets, Sequences, TLC

\* ---------------------------------------------------------------- bounds
NCalls == 2
Calls == 1..NCalls

\* ------------------------------------------------------- input domains
Handlers == {"h1", "h2"}
NoHandler == "null"

ProductIds == {"P1", "P2"}
ValidKeys == {"K1", "K2"}
BadKey == "bad"

NullDetails == [isNull |-> TRUE, toPublicKey |-> "", note |-> ""]
PlainDetails == [isNull |-> FALSE, toPublicKey |-> "", note |-> "n"]
KeyedDetails == [isNull |-> FALSE, toPublicKey |-> "pub_K2", note |-> "n"]
SelfDetails == [isNull |-> FALSE, toPublicKey |-> "pub_K1", note |-> "n"]

NoReq ==
  [op |-> "none", productId |-> "", fromUserId |-> "", toUserId |-> "",
   fromRole |-> "", toRole |-> "", privateKey |-> "", passed |-> FALSE,
   details |-> NullDetails]

CreationRequests ==
  { [NoReq EXCEPT !.op = "creation", !.productId = p, !.fromUserId = "U1",
                  !.privateKey = k, !.details = PlainDetails] :
      p \in ProductIds, k \in {"K1", BadKey} }

TransferRequests ==
  { [NoReq EXCEPT !.op = "transfer", !.productId = "P1", !.fromUserId = "U1",
                  !.toUserId = "U2", !.fromRole = "FARMER",
                  !.toRole = "COLLECTOR", !.privateKey = "K1",
                  !.details = d] :
      d \in {NullDetails, PlainDetails, KeyedDetails, SelfDetails} }

VerificationRequests ==
  { [NoReq EXCEPT !.op = "verification", !.productId = "P2",
                  !.fromUserId = "U2", !.fromRole = "COLLECTOR",
                  !.privateKey = k, !.passed = b, !.details = PlainDetails] :
      k \in {"K2"}, b \in BOOLEAN }

\* ------------------------------------------------ Signer and Transaction
\* utils/keypair.getKeyPair: deterministic derivation, fails on a bad key.
getKeyPair(privateKey) ==
  IF privateKey \in ValidKeys
    THEN [ok |-> TRUE, private |-> privateKey, public |-> "pub_" \o privateKey]
    ELSE [ok |-> FALSE, private |-> "", public |-> ""]

BoolStr(b) == IF b THEN "true" ELSE "false"

NoData ==
  [type |-> "", productId |-> "", fromUserId |-> "", toUserId |-> "",
   verifierId |-> "", verificationPassed |-> "", details |-> NullDetails]

NoTx == [from |-> "", to |-> "", data |-> NoData, signature |-> ""]

\* new Transaction({from, to, data}): an unsigned transaction.
NewTransaction(from, to, data) ==
  [from |-> from, to |-> to, data |-> data, signature |-> ""]

\* Canonical encoding of (from, to, payload).
Canonical(tx) ==
  tx.from \o "|" \o tx.to \o "|" \o tx.data.type \o "|" \o tx.data.productId
    \o "|" \o tx.data.fromUserId \o "|" \o tx.data.toUserId
    \o "|" \o tx.data.verifierId \o "|" \o tx.data.verificationPassed
    \o "|" \o (IF tx.data.details.isNull THEN "null"
               ELSE tx.data.details.toPublicKey \o ";" \o tx.data.details.note)

\* Transaction.sign(keyPair)
sign(tx, keyPair) ==
  [tx EXCEPT !.signature = "sig(" \o keyPair.private \o "," \o Canonical(tx) \o ")"]

\* Transaction.getHash(): content digest over the signed transaction.
getHash(tx) == "hash(" \o Canonical(tx) \o "#" \o tx.signature \o ")"


\* ------------------------------------------------------------ the state
VARIABLES
  transactionHandler,  \* BlockchainIntegration.transactionHandler (line 12)
  registered,          \* the handler most recently passed to setTransactionHandler
  calls,               \* the invocations of the public operations, by call
  store,               \* the records held by TransactionHistoryService
  route,               \* a mounted ProtectedRoute: props, hooks, component state
  post                 \* one request handled by the register-wallet POST route

vars == <<transactionHandler, registered, calls, store, route, post>>

\* useSession().data: absent, or a session whose user has a role and a
\* needsRoleSelection flag.
NoSession == [exists |-> FALSE, role |-> "", needsRoleSelection |-> FALSE]

\* localStorage 'walletUserData': absent, not JSON, or JSON with a role.
NoWalletUserData == [kind |-> "absent", role |-> ""]

\* No ProtectedRoute is mounted.
Unmounted ==
  [mounted |-> FALSE, roles |-> <<>>, skipRoleCheck |-> FALSE,
   allowNoRole |-> FALSE, status |-> "loading", session |-> NoSession,
   walletToken |-> FALSE, walletUserData |-> NoWalletUserData,
   isAuthPage |-> FALSE,
   authChecked |-> FALSE,      \* useState(false), line 23
   authError |-> "",           \* useState(null), line 24
   effectPending |-> FALSE,    \* the effect of line 26 is due to run
   pushed |-> {},              \* the routes given to router.push
   lastCheck |-> "none",       \* where the last checkAuth ended
   admitted |-> FALSE]         \* a checkAuth has ended at line 87 or 112

\* The JSON body of a request; the empty string stands for a field that is
\* absent or empty, and messageType is the JSON type of message.
NoBody ==
  [kind |-> "none", name |-> "", role |-> "", address |-> "",
   signature |-> "", message |-> "", messageType |-> "string",
   chainId |-> ""]

\* No request is being handled by the POST route.
PostIdle ==
  [pc |-> "idle", body |-> NoBody,
   fetches |-> 0,              \* how many times the backend was contacted
   backendStatus |-> 0,        \* response.status of the backend
   status |-> 0,               \* status of the NextResponse returned
   success |-> "none"]         \* its success field

NoWrite ==
  [method |-> "none", productId |-> "", userId |-> "", fromRole |-> "",
   toUserId |-> "", toRole |-> "", passed |-> FALSE, details |-> NullDetails]

NoHistoryResult == [success |-> FALSE, transactionId |-> 0]

NoUpdate == [transactionId |-> 0, blockHash |-> "", transactionHash |-> ""]

\* The promise of a call: not yet settled, resolved with a result, or
\* rejected (an exception escaped the operation). The result type of line
\* 49 has the optional fields transactionHash and blockHash.
NoResult ==
  [settled |-> "no", success |-> FALSE, transactionHash |-> "", blockHash |-> ""]

NewCall ==
  [pc |-> "idle", req |-> NoReq, tx |-> NoTx,
   failedAt |-> "",            \* the step that threw, if any
   tested |-> NoHandler,       \* the handler value the test of line 70 saw
   invoked |-> NoHandler,      \* the handler this call invoked
   invocations |-> 0,          \* how many times this call invoked a handler
   submitted |-> NoTx,         \* the transaction handed to that handler
   verdict |-> "none",         \* how the handler's promise settled
   write |-> NoWrite,          \* the History Store write this call made
   writes |-> 0,               \* how many History Store writes this call made
   historyResult |-> NoHistoryResult,
   historySettled |-> "none",  \* how the History Store write settled
   update |-> NoUpdate,        \* arguments of updateTransactionWithBlockchainInfo
   lookup |-> "none",          \* how getTransaction settled
   result |-> NoResult]

\* -------------------------------------------- results of an operation
\* return { success: false }   (lines 97, 180, 256)
FailResult ==
  [settled |-> "resolved", success |-> FALSE, transactionHash |-> "",
   blockHash |-> ""]

\* Variant: the hash is taken from the transaction before it was signed.
SuccessResult_HashBeforeSigning(tx) ==
  [settled |-> "resolved", success |-> TRUE,
   transactionHash |-> getHash([tx EXCEPT !.signature = ""]), blockHash |-> ""]

\* Variant: the result also reports the block hash given to reconciliation.
SuccessResult_WithBlockHash(tx) ==
  [settled |-> "resolved", success |-> TRUE, transactionHash |-> getHash(tx),
   blockHash |-> "pending"]

\* return { success: true, transactionHash: transaction.getHash() }
\* (lines 89-92, 172-175, 248-251)
SuccessResult(tx) ==
  [settled |-> "resolved", success |-> TRUE, transactionHash |-> getHash(tx),
   blockHash |-> ""]

\* The fall-through return of line 97 / 180 / 256.
ReturnFalse(call) == [call EXCEPT !.pc = "done", !.result = FailResult]

\* Variant: the catch block logs and rethrows.
Catch_Rethrows(call, step) ==
  [call EXCEPT !.pc = "done", !.failedAt = step,
               !.result = [settled |-> "rejected", success |-> FALSE,
                           transactionHash |-> "", blockHash |-> ""]]

\* The catch block of lines 98-101 / 181-184 / 257-260.
Catch(call, step) ==
  [call EXCEPT !.pc = "done", !.failedAt = step, !.result = FailResult]

\* ------------------------------------------- building the transaction
\* lines 56-64
CreationTransaction(req, fromPublicKey) ==
  NewTransaction(fromPublicKey, fromPublicKey,
    [NoData EXCEPT !.type = "PRODUCT_CREATE", !.productId = req.productId,
                   !.details = req.details])

\* Variant: the caller's key is ignored and the placeholder always used.
ToPublicKey_AlwaysPlaceholder(details, toUserId) ==
  "default_public_key_for_" \o toUserId

\* line 131: details.toPublicKey || "default_public_key_for_" + toUserId
ToPublicKey(details, toUserId) ==
  IF details.toPublicKey # "" THEN details.toPublicKey
  ELSE "default_public_key_for_" \o toUserId

\* lines 134-144
TransferTransaction(req, fromPublicKey) ==
  NewTransaction(fromPublicKey, ToPublicKey(req.details, req.toUserId),
    [NoData EXCEPT !.type = "PRODUCT_TRANSFER", !.productId = req.productId,
                   !.fromUserId = req.fromUserId, !.toUserId = req.toUserId,
                   !.details = req.details])

\* lines 211-221
VerificationTransaction(req, fromPublicKey) ==
  NewTransaction(fromPublicKey, fromPublicKey,
    [NoData EXCEPT !.type = "PRODUCT_VERIFICATION", !.productId = req.productId,
                   !.verifierId = req.fromUserId,
                   !.verificationPassed = BoolStr(req.passed),
                   !.details = req.details])

\* Reading a property of null or undefined throws a TypeError (line 131).
ConstructionThrows(req) == req.op = "transfer" /\ req.details.isNull

BuildTransaction(req, fromPublicKey) ==
  CASE req.op = "creation" -> CreationTransaction(req, fromPublicKey)
    [] req.op = "transfer" -> TransferTransaction(req, fromPublicKey)
    [] req.op = "verification" -> VerificationTransaction(req, fromPublicKey)

\* Variant: without a handler the submission step is skipped and the
\* operation carries on as if the transaction had been accepted.
Submit_NoHandlerAccepts(call, tx, tested, current) ==
  IF tested # NoHandler
    THEN [call EXCEPT !.pc = "awaitHandler", !.tx = tx, !.tested = tested,
                      !.invoked = current, !.invocations = @ + 1,
                      !.submitted = tx]
    ELSE [call EXCEPT !.tx = tx, !.pc = "awaitHistory", !.writes = @ + 1,
                      !.write = [NoWrite EXCEPT !.method = "recordProductCreation",
                                                !.productId = call.req.productId]]

\* ------------------------------------------------ submission (70-71)
\* if (this.transactionHandler) { await this.transactionHandler(transaction)
\* tested: the value of the field read by the test of line 70;
\* current: the value read by the invocation of line 71.
Submit(call, tx, tested, current) ==
  IF tested # NoHandler
    THEN [call EXCEPT !.pc = "awaitHandler", !.tx = tx, !.tested = tested,
                      !.invoked = current, !.invocations = @ + 1,
                      !.submitted = tx]
    ELSE ReturnFalse([call EXCEPT !.tx = tx])

\* Variant: a failed key derivation is swallowed and the operation goes on
\* with an empty key pair.
Begin_SwallowsKeyError(call, req, handler, signOk) ==
  LET started == [call EXCEPT !.req = req]
      keyPair == getKeyPair(req.privateKey)
  IN  IF ConstructionThrows(req) THEN Catch(started, "construct")
      ELSE IF ~signOk THEN Catch(started, "sign")
      ELSE Submit(started, sign(BuildTransaction(req, keyPair.public), keyPair),
                  handler, handler)

\* Variant: the transaction is handed to the handler as built, the signing
\* step being left out.
Begin_SubmitsUnsigned(call, req, handler, signOk) ==
  LET started == [call EXCEPT !.req = req]
      keyPair == getKeyPair(req.privateKey)
  IN  IF ~keyPair.ok THEN Catch(started, "getKeyPair")
      ELSE IF ConstructionThrows(req) THEN Catch(started, "construct")
      ELSE Submit(started, BuildTransaction(req, keyPair.public), handler, handler)

\* Variant: the handler is read again after a yield, when another handler
\* has been registered in the meantime.
Begin_RereadsHandler(call, req, handler, signOk) ==
  LET started == [call EXCEPT !.req = req]
      keyPair == getKeyPair(req.privateKey)
      later == CHOOSE h \in Handlers : h # handler
  IN  IF ~keyPair.ok THEN Catch(started, "getKeyPair")
      ELSE IF ConstructionThrows(req) THEN Catch(started, "construct")
      ELSE IF ~signOk THEN Catch(started, "sign")
      ELSE Submit(started, sign(BuildTransaction(req, keyPair.public), keyPair),
                  handler, later)

\* The synchronous prefix of an operation: lines 50-71, 124-151, 205-228.
\* signOk: whether Transaction.sign completes or throws.
\* handler: the value of this.transactionHandler during this stretch; no
\* other code runs between the test of line 70 and the call of line 71.
Begin(call, req, handler, signOk) ==
  LET started == [call EXCEPT !.req = req]
      keyPair == getKeyPair(req.privateKey)
  IN  IF ~keyPair.ok THEN Catch(started, "getKeyPair")
      ELSE IF ConstructionThrows(req) THEN Catch(started, "construct")
      ELSE IF ~signOk THEN Catch(started, "sign")
      ELSE Submit(started, sign(BuildTransaction(req, keyPair.public), keyPair),
                  handler, handler)


\* Variant: the transfer's sender and recipient are passed in each other's
\* place.
HistoryWrite_SwapsParties(req) ==
  CASE req.op = "creation" ->
         [NoWrite EXCEPT !.method = "recordProductCreation",
                         !.productId = req.productId, !.userId = req.fromUserId,
                         !.details = req.details]
    [] req.op = "transfer" ->
         [NoWrite EXCEPT !.method = "recordProductTransfer",
                         !.productId = req.productId, !.userId = req.toUserId,
                         !.fromRole = req.toRole, !.toUserId = req.fromUserId,
                         !.toRole = req.fromRole, !.details = req.details]
    [] req.op = "verification" ->
         [NoWrite EXCEPT !.method = "recordProductVerification",
                         !.productId = req.productId, !.userId = req.fromUserId,
                         !.fromRole = req.fromRole, !.passed = req.passed,
                         !.details = req.details]

\* ------------------------------------- after the handler settles (71-79)
\* The History Store call each operation makes, with its arguments:
\* lines 75-79, 155-162, 232-238.
HistoryWrite(req) ==
  CASE req.op = "creation" ->
         [NoWrite EXCEPT !.method = "recordProductCreation",
                         !.productId = req.productId, !.userId = req.fromUserId,
                         !.details = req.details]
    [] req.op = "transfer" ->
         [NoWrite EXCEPT !.method = "recordProductTransfer",
                         !.productId = req.productId, !.userId = req.fromUserId,
                         !.fromRole = req.fromRole, !.toUserId = req.toUserId,
                         !.toRole = req.toRole, !.details = req.details]
    [] req.op = "verification" ->
         [NoWrite EXCEPT !.method = "recordProductVerification",
                         !.productId = req.productId, !.userId = req.fromUserId,
                         !.fromRole = req.fromRole, !.passed = req.passed,
                         !.details = req.details]

\* Variant: the verdict is not tested; a resolved handler counts as accepted.
OnVerdict_IgnoresVerdict(call, settled) ==
  LET c1 == [call EXCEPT !.verdict = settled]
  IN  IF settled = "threw" THEN Catch(c1, "handler")
      ELSE [c1 EXCEPT !.pc = "awaitHistory", !.writes = @ + 1,
                 !.write = HistoryWrite(call.req)]

\* Variant: the History Store write is issued before the verdict is tested.
OnVerdict_WritesFirst(call, settled) ==
  LET c1 == [call EXCEPT !.verdict = settled]
  IN  CASE settled = "threw" -> Catch(c1, "handler")
        [] settled = "accepted" ->
             [c1 EXCEPT !.pc = "awaitHistory", !.writes = @ + 1,
                 !.write = HistoryWrite(call.req)]
        [] settled = "rejected" ->
             ReturnFalse([c1 EXCEPT !.writes = @ + 1,
                                   !.write = HistoryWrite(call.req)])

\* Variant: a rejected submission is submitted once more.
OnVerdict_RetriesRejected(call, settled) ==
  LET c1 == [call EXCEPT !.verdict = settled]
  IN  CASE settled = "threw" -> Catch(c1, "handler")
        [] settled = "accepted" ->
             [c1 EXCEPT !.pc = "awaitHistory", !.writes = @ + 1,
                 !.write = HistoryWrite(call.req)]
        [] settled = "rejected" ->
             IF call.invocations < 2
               THEN [c1 EXCEPT !.pc = "awaitHandler", !.invocations = @ + 1]
               ELSE ReturnFalse(c1)

\* Variant: an acceptance counts only while the handler that gave it is
\* still the registered one.
OnVerdict_RequiresCurrentHandler(call, settled) ==
  LET c1 == [call EXCEPT !.verdict = settled]
  IN  CASE settled = "threw" -> Catch(c1, "handler")
        [] settled = "accepted" ->
             IF transactionHandler = call.invoked
               THEN [c1 EXCEPT !.pc = "awaitHistory", !.writes = @ + 1,
                               !.write = HistoryWrite(call.req)]
               ELSE ReturnFalse(c1)
        [] settled = "rejected" -> ReturnFalse(c1)

\* const isValid = await handler(tx); if (isValid) { await History.record...
\* settled: "accepted" (resolved true), "rejected" (resolved false),
\* "threw" (the handler's promise rejected).
OnVerdict(call, settled) ==
  LET c1 == [call EXCEPT !.verdict = settled]
  IN  CASE settled = "threw" -> Catch(c1, "handler")
        [] settled = "accepted" ->
             [c1 EXCEPT !.pc = "awaitHistory", !.writes = @ + 1,
                 !.write = HistoryWrite(call.req)]
        [] settled = "rejected" -> ReturnFalse(c1)

\* Variant: the identifier is not tested; reconciliation starts on any
\* successful write.
OnHistoryResult_IgnoresIdentifier(call, settled, historyResult) ==
  LET c1 == [call EXCEPT !.historySettled = settled,
                         !.historyResult = historyResult]
  IN  IF settled = "threw" THEN Catch(c1, "history")
      ELSE IF historyResult.success
        THEN [c1 EXCEPT !.pc = "awaitLookup",
                        !.update = [transactionId |-> historyResult.transactionId,
                                    blockHash |-> "pending",
                                    transactionHash |-> getHash(call.tx)]]
        ELSE ReturnFalse(c1)

\* Variant: the reconciliation is handed the hash of the transaction as it
\* was before signing.
OnHistoryResult_HashBeforeSigning(call, settled, historyResult) ==
  LET c1 == [call EXCEPT !.historySettled = settled,
                         !.historyResult = historyResult]
  IN  IF settled = "threw" THEN Catch(c1, "history")
      ELSE IF historyResult.success /\ historyResult.transactionId # 0
        THEN [c1 EXCEPT !.pc = "awaitLookup",
                        !.update = [transactionId |-> historyResult.transactionId,
                                    blockHash |-> "pending",
                                    transactionHash |->
                                      getHash([call.tx EXCEPT !.signature = ""])]]
        ELSE ReturnFalse(c1)

\* ------------------------------ after the History Store settles (81-87)
\* if (historyResult.success && historyResult.transactionId) {
\*   await this.updateTransactionWithBlockchainInfo(id, "pending", getHash())
OnHistoryResult(call, settled, historyResult) ==
  LET c1 == [call EXCEPT !.historySettled = settled,
                         !.historyResult = historyResult]
  IN  IF settled = "threw" THEN Catch(c1, "history")
      ELSE IF historyResult.success /\ historyResult.transactionId # 0
        THEN [c1 EXCEPT !.pc = "awaitLookup",
                        !.update = [transactionId |-> historyResult.transactionId,
                                    blockHash |-> "pending",
                                    transactionHash |-> getHash(call.tx)]]
        ELSE ReturnFalse(c1)

\* ------------------------------------------ the History Store (consumed)
\* A record as TransactionHistoryService creates it: identified by a
\* generated identifier, ledger sub-state pending and without a hash.
NewRecord(id, c, write) ==
  [id |-> id, call |-> c, method |-> write.method, productId |-> write.productId,
   blockHash |-> "pending", transactionHash |-> ""]

NextId(st) == Cardinality(st) + 1

\* How a write can settle: resolved {success: true, transactionId},
\* resolved {success: true} without an identifier, resolved
\* {success: false}, or rejected.
HistoryOutcomes == {"ok", "noid", "failed", "threw"}

HistoryResultOf(outcome, id) ==
  CASE outcome = "ok" -> [success |-> TRUE, transactionId |-> id]
    [] outcome = "noid" -> [success |-> TRUE, transactionId |-> 0]
    [] OTHER -> [success |-> FALSE, transactionId |-> 0]

StoreAfterWrite(st, outcome, c, write) ==
  IF outcome \in {"ok", "noid"} THEN st \cup {NewRecord(NextId(st), c, write)}
  ELSE st

\* Variant: the helper assigns the ledger fields of the record itself.
updateTransactionWithBlockchainInfo_AssignsFields(st, update, lookup) ==
  IF lookup = "found"
    THEN {IF r.id = update.transactionId
            THEN [r EXCEPT !.blockHash = update.blockHash,
                           !.transactionHash = update.transactionHash]
            ELSE r : r \in st}
    ELSE st

\* ------------------------------------- reconciliation (lines 266-286)
\* updateTransactionWithBlockchainInfo: looks the record up and logs; it
\* has no way to write the ledger fields, so the store is left as it was.
updateTransactionWithBlockchainInfo(st, update, lookup) == st

\* Variant: a lookup that finds nothing or rejects fails the operation.
OnLookup_SurfacesFailure(call, settled) ==
  IF settled = "found"
    THEN [call EXCEPT !.lookup = settled, !.pc = "done",
                      !.result = SuccessResult(call.tx)]
    ELSE Catch([call EXCEPT !.lookup = settled], "lookup")

\* Variant: the transaction is kept in a field of the singleton, which the
\* call made last has overwritten by the time the result is built.
OnLookup_UsesSharedTransaction(call, settled) ==
  LET latest == CHOOSE d \in Calls :
                  /\ calls[d].pc # "idle"
                  /\ \A e \in Calls : e > d => calls[e].pc = "idle"
  IN  [call EXCEPT !.lookup = settled, !.pc = "done",
                   !.result = SuccessResult(calls[latest].tx)]

\* Variant: the helper's promise never settles, so the operation stays at
\* its await.
OnLookup_NeverReturns(call, settled) == [call EXCEPT !.lookup = settled]

\* After the lookup settles the helper returns (it catches a rejected
\* lookup itself) and the operation returns its result: lines 89-92.
OnLookup(call, settled) ==
  [call EXCEPT !.lookup = settled, !.pc = "done", !.result = SuccessResult(call.tx)]

\* --------------------------------------------------------------- actions
Init ==
  /\ transactionHandler = NoHandler
  /\ registered = NoHandler
  /\ calls = [c \in Calls |-> NewCall]
  /\ store = {}
  /\ route = Unmounted
  /\ post = PostIdle

\* Variant: a handler already registered is kept (first registration wins).
setTransactionHandler_KeepsFirst(h) ==
  /\ transactionHandler' = IF transactionHandler = NoHandler THEN h
                           ELSE transactionHandler
  /\ registered' = h
  /\ UNCHANGED <<calls, store, route, post>>

\* lines 32-34
setTransactionHandler(h) ==
  /\ transactionHandler' = h
  /\ registered' = h
  /\ UNCHANGED <<calls, store, route, post>>

\* Calls are numbered in the order in which they are made.
CanStart(c) ==
  /\ calls[c].pc = "idle"
  /\ \A d \in Calls : d < c => calls[d].pc # "idle"

StartCall(c, req, signOk) ==
  /\ CanStart(c)
  /\ calls' = [calls EXCEPT ![c] = Begin(calls[c], req, transactionHandler, signOk)]
  /\ UNCHANGED <<transactionHandler, registered, store, route, post>>

\* lines 44-71
recordProductCreation(c) ==
  \E req \in CreationRequests, signOk \in BOOLEAN : StartCall(c, req, signOk)

\* lines 115-151
recordProductTransfer(c) ==
  \E req \in TransferRequests, signOk \in BOOLEAN : StartCall(c, req, signOk)

\* lines 197-228
recordProductVerification(c) ==
  \E req \in VerificationRequests, signOk \in BOOLEAN : StartCall(c, req, signOk)

\* The handler's promise settles and the operation resumes at line 71.
HandlerSettles(c) ==
  /\ calls[c].pc = "awaitHandler"
  /\ \E settled \in {"accepted", "rejected", "threw"} :
       calls' = [calls EXCEPT ![c] = OnVerdict(calls[c], settled)]
  /\ UNCHANGED <<transactionHandler, registered, store, route, post>>

\* The History Store write settles and the operation resumes at line 75.
HistorySettles(c) ==
  /\ calls[c].pc = "awaitHistory"
  /\ \E outcome \in HistoryOutcomes :
       /\ store' = StoreAfterWrite(store, outcome, c, calls[c].write)
       /\ calls' = [calls EXCEPT ![c] =
            OnHistoryResult(calls[c], IF outcome = "threw" THEN "threw" ELSE "resolved",
                            HistoryResultOf(outcome, NextId(store)))]
  /\ UNCHANGED <<transactionHandler, registered, route, post>>

\* getTransaction settles: the record, nothing, or a rejection.
LookupSettles(c) ==
  /\ calls[c].pc = "awaitLookup"
  /\ \E settled \in {"found", "absent", "threw"} :
       /\ settled = "found" =>
            \E r \in store : r.id = calls[c].update.transactionId
       /\ calls' = [calls EXCEPT ![c] = OnLookup(calls[c], settled)]
       /\ store' = updateTransactionWithBlockchainInfo(store, calls[c].update, settled)
  /\ UNCHANGED <<transactionHandler, registered, route, post>>

Next ==
  \/ \E h \in Handlers : setTransactionHandler(h)
  \/ \E c \in Calls : recordProductCreation(c)
  \/ \E c \in Calls : recordProductTransfer(c)
  \/ \E c \in Calls : recordProductVerification(c)
  \/ \E c \in Calls : HandlerSettles(c)
  \/ \E c \in Calls : HistorySettles(c)
  \/ \E c \in Calls : LookupSettles(c)

Spec == Init /\ [][Next]_vars


\* ============================================================== claims
Done(c) == calls[c].pc = "done"
Started(c) == calls[c].pc # "idle"
\* The call invoked a History Store write.
Wrote(c) == calls[c].write.method # "none"
\* The records the History Store holds for the call.
RecordsOf(c) == {r \in store : r.call = c}
\* The call reached the reconciliation step.
Reconciling(c) == calls[c].update # NoUpdate
\* The History Store write resolved with success and an identifier.
HistoryOk(c) ==
  /\ calls[c].historySettled = "resolved"
  /\ calls[c].historyResult.success
  /\ calls[c].historyResult.transactionId # 0

\* C1: every History Store write, and every record the store holds, belongs
\* to a call whose transaction a registered handler accepted.
C1_HistorySubsetOfAccepted ==
  \A c \in Calls :
    (Wrote(c) \/ RecordsOf(c) # {}) =>
      /\ calls[c].invoked \in Handlers
      /\ calls[c].verdict = "accepted"

C1_Witness ==
  \E c \in Calls :
    /\ RecordsOf(c) # {}
    /\ calls[c].verdict = "accepted"
    /\ \E d \in Calls : calls[d].verdict = "rejected"

\* What a call left behind: its result, its History Store write, its
\* reconciliation and its records.
Effects(c) ==
  <<calls[c].result, calls[c].write, calls[c].update, calls[c].lookup, RecordsOf(c)>>

\* The call got through signing and found no handler registered.
NoHandlerCall(c) ==
  /\ Done(c)
  /\ calls[c].failedAt = ""
  /\ calls[c].tx # NoTx
  /\ calls[c].invoked = NoHandler

RejectedCall(c) == Done(c) /\ calls[c].verdict = "rejected"

\* C2: without a registered handler an operation resolves to
\* {success: false} and writes nothing to the History Store, exactly as an
\* operation whose handler returned false.
C2_NoHandlerIsRejection ==
  \A c \in Calls :
    NoHandlerCall(c) =>
      /\ Effects(c) = <<FailResult, NoWrite, NoUpdate, "none", {}>>
      /\ \A d \in Calls : RejectedCall(d) => Effects(d) = Effects(c)

C2_Witness ==
  \E c, d \in Calls : NoHandlerCall(c) /\ RejectedCall(d)

\* C3: when the handler returns false the operation returns
\* {success: false} with no History Store write and no reconciliation, for
\* each of the three kinds.
C3_RejectedWritesNothing ==
  \A c \in Calls :
    calls[c].verdict = "rejected" =>
      /\ Done(c)
      /\ calls[c].result = FailResult
      /\ ~Wrote(c)
      /\ RecordsOf(c) = {}
      /\ ~Reconciling(c)
      /\ calls[c].lookup = "none"

C3_Witness ==
  \E c, d \in Calls :
    /\ calls[c].verdict = "rejected" /\ calls[d].verdict = "rejected"
    /\ calls[c].req.op = "transfer"
    /\ calls[d].req.op \in {"creation", "verification"}

\* C4: handler returned true and the History Store write succeeded with an
\* identifier: the operation returns success with a non-empty
\* transactionHash equal to the hash of the transaction submitted.
C4_SuccessCarriesSubmittedHash ==
  \A c \in Calls :
    (Done(c) /\ calls[c].verdict = "accepted" /\ HistoryOk(c)) =>
      /\ calls[c].result.settled = "resolved"
      /\ calls[c].result.success
      /\ calls[c].result.transactionHash # ""
      /\ calls[c].result.transactionHash = getHash(calls[c].submitted)
      /\ calls[c].submitted.signature # ""

C4_Witness ==
  \E c \in Calls :
    /\ Done(c) /\ calls[c].verdict = "accepted" /\ HistoryOk(c)
    /\ calls[c].result.success

\* C5: after the reconciliation step of an accepted and recorded operation
\* the History Record named by the returned identifier has blockHash
\* "pending" and transactionHash equal to the submitted transaction's hash.
C5_RecordReconciled ==
  \A c \in Calls :
    (Done(c) /\ calls[c].verdict = "accepted" /\ HistoryOk(c)
       /\ calls[c].lookup = "found") =>
      \E r \in store :
        /\ r.id = calls[c].historyResult.transactionId
        /\ r.blockHash = "pending"
        /\ r.transactionHash = getHash(calls[c].submitted)

\* C6: the handler accepted but the History Store write failed or returned
\* no identifier: the operation still returns {success: true,
\* transactionHash}.
C6_LedgerSuccessNotMasked ==
  \A c \in Calls :
    (Done(c) /\ calls[c].verdict = "accepted"
       /\ calls[c].historySettled = "resolved" /\ ~HistoryOk(c)) =>
      /\ calls[c].result.success
      /\ calls[c].result.transactionHash = getHash(calls[c].submitted)

\* C7: an operation that returns {success: false} recorded nothing: the
\* handler did not accept its transaction and the History Store gained no
\* record.
C7_FailureMeansNothingRecorded ==
  \A c \in Calls :
    (Done(c) /\ calls[c].result.settled = "resolved" /\ ~calls[c].result.success) =>
      /\ calls[c].verdict # "accepted"
      /\ RecordsOf(c) = {}

\* The call saw one of its steps throw or reject.
Threw(c) ==
  \/ calls[c].failedAt # ""
  \/ calls[c].verdict = "threw"
  \/ calls[c].historySettled = "threw"

\* C8: no exception escapes an operation: a finished call has resolved to
\* a structured result, whichever step threw, and a throw before the
\* result is built gives {success: false}.
C8_NoExceptionEscapes ==
  \A c \in Calls :
    /\ calls[c].result.settled # "rejected"
    /\ Done(c) => calls[c].result.settled = "resolved"
    /\ Threw(c) => (Done(c) /\ calls[c].result = FailResult)
    /\ calls[c].lookup = "threw" => (Done(c) /\ calls[c].result.settled = "resolved")

C8_Witness ==
  \E c, d \in Calls :
    /\ calls[c].failedAt \in {"getKeyPair", "construct", "sign", "handler"}
    /\ calls[d].failedAt = "history" \/ calls[d].lookup = "threw"

\* C9: when key derivation fails the operation returns {success: false},
\* invokes no handler and writes nothing to the History Store.
C9_KeyFailureFailsFast ==
  \A c \in Calls :
    (Started(c) /\ ~getKeyPair(calls[c].req.privateKey).ok) =>
      /\ Done(c)
      /\ calls[c].result = FailResult
      /\ calls[c].invoked = NoHandler
      /\ calls[c].submitted = NoTx
      /\ calls[c].verdict = "none"
      /\ ~Wrote(c)
      /\ RecordsOf(c) = {}

C9_Witness ==
  \E c \in Calls :
    /\ Done(c) /\ calls[c].req.privateKey = BadKey
    /\ transactionHandler \in Handlers
    /\ calls[c].failedAt = "getKeyPair"

\* C10: registration is last-write-wins: a call that reaches its
\* submission step invokes the handler registered most recently and no
\* other, and the handler a call invoked never changes afterwards.
C10_LastRegistrationWins ==
  [][ \A c \in Calls :
        /\ (calls[c].pc = "idle" /\ calls'[c].pc # "idle") =>
             calls'[c].invoked \in {registered, NoHandler}
        /\ (calls[c].pc = "idle" /\ calls'[c].tx # NoTx) =>
             calls'[c].invoked = registered
        /\ calls[c].pc # "idle" => calls'[c].invoked = calls[c].invoked ]_vars

C10_Witness ==
  \E c, d \in Calls :
    /\ c < d
    /\ calls[c].invoked = "h1"
    /\ calls[d].invoked = "h2"
    /\ registered = "h2"

\* The transaction the call's arguments describe, signed with the caller's key.
SignedTransactionOf(req) ==
  sign(BuildTransaction(req, getKeyPair(req.privateKey).public),
       getKeyPair(req.privateKey))

\* C11: a transaction is never submitted unsigned: the handler is invoked
\* only with a transaction carrying the caller's signature, and when
\* signing fails no handler is invoked.
C11_NeverSubmittedUnsigned ==
  \A c \in Calls :
    /\ calls[c].invocations > 0 =>
         /\ calls[c].submitted.signature # ""
         /\ calls[c].submitted.signature = SignedTransactionOf(calls[c].req).signature
         /\ calls[c].submitted = calls[c].tx
    /\ calls[c].failedAt = "sign" =>
         /\ calls[c].invocations = 0
         /\ calls[c].submitted = NoTx
         /\ calls[c].verdict = "none"

C11_Witness ==
  \E c, d \in Calls :
    /\ calls[c].invocations > 0 /\ calls[c].submitted.signature # ""
    /\ calls[d].failedAt = "sign" /\ calls[d].invocations = 0
    /\ transactionHandler \in Handlers

\* C12: a call submits its transaction at most once, and a rejected
\* submission ends the call: no retry, no second invocation.
C12_SubmittedAtMostOnce ==
  \A c \in Calls :
    /\ calls[c].invocations <= 1
    /\ calls[c].verdict = "rejected" =>
         (Done(c) /\ calls[c].invocations = 1 /\ calls[c].result = FailResult)

C12_Witness ==
  \E c \in Calls :
    /\ calls[c].verdict = "rejected" /\ Done(c)
    /\ calls[c].invocations = 1
    /\ transactionHandler \in Handlers

\* C13: the handler a call tests for presence is the handler it invokes:
\* no registration takes effect between the test and the invocation.
C13_TestedHandlerIsInvoked ==
  \A c \in Calls :
    /\ calls[c].invoked = calls[c].tested
    /\ calls[c].invocations > 0 => calls[c].tested \in Handlers

\* A call invoked the handler it tested, and another handler has been
\* registered while that call is still in flight.
C13_Witness ==
  \E c \in Calls :
    /\ calls[c].pc = "awaitHandler"
    /\ calls[c].invoked = calls[c].tested
    /\ calls[c].tested \in Handlers
    /\ transactionHandler \in Handlers \ {calls[c].tested}

\* C14: within a call the steps run in the order sign, submit, History Store
\* write, reconciliation: the write starts only when the handler's
\* acceptance has been received, the reconciliation only when the write
\* has returned an identifier, and the two never overlap.
C14_StepsInOrder ==
  \A c \in Calls :
    /\ calls[c].invocations > 0 => calls[c].submitted.signature # ""
    /\ calls[c].pc = "awaitHandler" =>
         (calls[c].verdict = "none" /\ calls[c].writes = 0 /\ ~Reconciling(c))
    /\ calls[c].writes > 0 =>
         (calls[c].invocations > 0 /\ calls[c].verdict = "accepted")
    /\ calls[c].pc = "awaitHistory" =>
         (calls[c].writes = 1 /\ calls[c].historySettled = "none"
            /\ ~Reconciling(c) /\ calls[c].lookup = "none")
    /\ Reconciling(c) =>
         /\ calls[c].writes = 1
         /\ HistoryOk(c)
         /\ calls[c].update.transactionId = calls[c].historyResult.transactionId
    /\ calls[c].pc = "awaitLookup" => (Reconciling(c) /\ calls[c].lookup = "none")
    /\ calls[c].lookup # "none" => (Reconciling(c) /\ Done(c))

C14_Witness ==
  \E c, d \in Calls :
    /\ calls[c].pc = "awaitLookup" /\ Reconciling(c)
    /\ calls[d].pc = "awaitHistory"

\* C15: a reconciliation lookup that returns nothing or rejects is not
\* surfaced: the operation still returns {success: true, transactionHash}.
C15_ReconciliationFailureNotSurfaced ==
  \A c \in Calls :
    calls[c].lookup \in {"absent", "threw"} =>
      /\ Done(c)
      /\ calls[c].failedAt = ""
      /\ calls[c].result.settled = "resolved"
      /\ calls[c].result.success
      /\ calls[c].result.transactionHash = getHash(calls[c].submitted)

C15_Witness ==
  \E c, d \in Calls :
    /\ calls[c].lookup = "absent" /\ calls[c].result.success
    /\ calls[d].lookup = "threw" /\ calls[d].result.success

\* The History Store call the arguments of a call ask for.
OwnWrite(req) ==
  CASE req.op = "creation" ->
         [method |-> "recordProductCreation", productId |-> req.productId,
          userId |-> req.fromUserId, fromRole |-> "", toUserId |-> "",
          toRole |-> "", passed |-> FALSE, details |-> req.details]
    [] req.op = "transfer" ->
         [method |-> "recordProductTransfer", productId |-> req.productId,
          userId |-> req.fromUserId, fromRole |-> req.fromRole,
          toUserId |-> req.toUserId, toRole |-> req.toRole, passed |-> FALSE,
          details |-> req.details]
    [] req.op = "verification" ->
         [method |-> "recordProductVerification", productId |-> req.productId,
          userId |-> req.fromUserId, fromRole |-> req.fromRole, toUserId |-> "",
          toRole |-> "", passed |-> req.passed, details |-> req.details]

\* What a finished call must have returned, given only its own arguments,
\* the verdict on its own transaction and its own History Store result.
OwnResult(c) ==
  IF calls[c].failedAt = "" /\ calls[c].verdict = "accepted" /\ HistoryOk(c)
    THEN [settled |-> "resolved", success |-> TRUE,
          transactionHash |-> getHash(SignedTransactionOf(calls[c].req)),
          blockHash |-> ""]
    ELSE [settled |-> "resolved", success |-> FALSE, transactionHash |-> "",
          blockHash |-> ""]

\* C16: concurrent operations do not interfere: a call's result and its
\* History Store write are determined by its own arguments, the verdict on
\* its own transaction and its own History Store result, and a step of one
\* call changes nothing of another call.
C16_CallsDoNotInterfere ==
  /\ [](\A c \in Calls :
          /\ Done(c) => calls[c].result = OwnResult(c)
          /\ calls[c].write =
               IF calls[c].verdict = "accepted" THEN OwnWrite(calls[c].req)
               ELSE NoWrite)
  /\ [][\A c, d \in Calls :
          (c # d /\ calls'[c] # calls[c]) => calls'[d] = calls[d]]_vars

\* Two calls for different products were in flight together and both
\* returned their own hash.
C16_Witness ==
  \E c, d \in Calls :
    /\ c < d
    /\ calls[c].req.productId # calls[d].req.productId
    /\ Done(c) /\ Done(d)
    /\ calls[c].result.success /\ calls[d].result.success
    /\ calls[c].result.transactionHash # calls[d].result.transactionHash
    /\ calls[c].historyResult.transactionId > calls[d].historyResult.transactionId

\* C17: a History Record's transactionHash, once set, is never overwritten,
\* its blockHash never goes back from a confirmed hash to "pending", and no
\* step of the integration layer changes a record the store holds: the
\* store changes only by the records its own writes add.
C17_RecordsNeverMutated ==
  [][ /\ \A r \in store :
           \E r2 \in store' :
             /\ r2.id = r.id
             /\ r.transactionHash # "" => r2.transactionHash = r.transactionHash
             /\ r.blockHash # "pending" => r2.blockHash # "pending"
             /\ r2 = r
      /\ \A r2 \in store' \ store :
           /\ r2.id \notin {r.id : r \in store}
           /\ calls[r2.call].pc = "awaitHistory"
           /\ calls'[r2.call].historySettled = "resolved" ]_vars

\* A call went through its reconciliation step with the record found, and
\* the record is still as the store created it.
C17_Witness ==
  \E c \in Calls :
    /\ Done(c) /\ calls[c].lookup = "found"
    /\ \E r \in store :
         /\ r.id = calls[c].update.transactionId
         /\ r = NewRecord(r.id, c, calls[c].write)

\* C18: when the handler accepts, the History Store receives exactly one
\* write from the call, of the kind of the operation and with the caller's
\* arguments unchanged; otherwise it receives none.
C18_OneWriteWithCallerArguments ==
  \A c \in Calls :
    IF calls[c].verdict = "accepted"
      THEN /\ calls[c].writes = 1
           /\ calls[c].write.method =
                (CASE calls[c].req.op = "creation" -> "recordProductCreation"
                   [] calls[c].req.op = "transfer" -> "recordProductTransfer"
                   [] calls[c].req.op = "verification" -> "recordProductVerification")
           /\ calls[c].write = OwnWrite(calls[c].req)
           /\ Cardinality(RecordsOf(c)) <= 1
      ELSE /\ calls[c].writes = 0
           /\ RecordsOf(c) = {}

C18_Witness ==
  \E c, d \in Calls :
    /\ calls[c].verdict = "accepted" /\ calls[c].req.op = "transfer"
    /\ calls[c].write.toUserId = "U2" /\ calls[c].write.toRole = "COLLECTOR"
    /\ calls[d].verdict = "accepted" /\ calls[d].req.op = "verification"
    /\ calls[d].write.passed

\* C19: the submitted transaction's from is the public identifier derived
\* from the caller's private key; to equals from for creation and
\* verification, and differs from from for a transfer.
C19_FromAndToIdentities ==
  \A c \in Calls :
    calls[c].invocations > 0 =>
      /\ calls[c].submitted.from = getKeyPair(calls[c].req.privateKey).public
      /\ calls[c].req.op \in {"creation", "verification"} =>
           calls[c].submitted.to = calls[c].submitted.from
      /\ calls[c].req.op = "transfer" =>
           calls[c].submitted.to # calls[c].submitted.from

\* The handler and History Store calls a call awaits eventually settle.
FairSpec ==
  /\ Spec
  /\ \A c \in Calls :
       /\ WF_vars(HandlerSettles(c))
       /\ WF_vars(HistorySettles(c))
       /\ WF_vars(LookupSettles(c))

\* C20: every invocation eventually returns when what it awaits settles,
\* and there is no timeout: a call awaiting its handler has returned
\* nothing, and leaves that await only by the handler settling.
C20_EventuallyReturns ==
  /\ \A c \in Calls : (Started(c) ~> (Done(c) /\ calls[c].result.settled = "resolved"))
  /\ [](\A c \in Calls :
          calls[c].pc \in {"awaitHandler", "awaitHistory", "awaitLookup"} =>
            calls[c].result = NoResult)
  /\ [][\A c \in Calls :
          (calls[c].pc = "awaitHandler" /\ calls'[c].pc # "awaitHandler") =>
            calls'[c].verdict # "none"]_vars

C20_Witness ==
  \E c, d \in Calls :
    /\ c # d
    /\ Done(c) /\ calls[c].lookup # "none" /\ calls[c].result.settled = "resolved"
    /\ calls[d].pc = "awaitHandler" /\ calls[d].result = NoResult

C23_SuccessExactlyWhen ==
  \A c \in Calls :
    Done(c) =>
      /\ calls[c].result.settled = "resolved"
      /\ calls[c].result.success <=>
           /\ calls[c].failedAt = ""
           /\ calls[c].tested \in Handlers
           /\ calls[c].verdict = "accepted"
           /\ calls[c].historySettled = "resolved"
           /\ calls[c].historyResult.success
           /\ calls[c].historyResult.transactionId # 0
      /\ calls[c].result.success => calls[c].result.transactionHash # ""
      /\ ~calls[c].result.success => calls[c].result.transactionHash = ""
      /\ calls[c].result.blockHash = ""

C23_Witness ==
  \E c, d \in Calls :
    /\ Done(c) /\ calls[c].result.success /\ calls[c].result.blockHash = ""
    /\ Done(d) /\ ~calls[d].result.success
    /\ calls[d].verdict = "accepted" /\ calls[d].historyResult.success
    /\ calls[d].historyResult.transactionId = 0

\* C24: replacing the handler while a call awaits its submission leaves
\* that call alone: it is not submitted again, its History Store write is
\* decided by the verdict of the handler it invoked and by nothing else,
\* and only a call that submits after the replacement uses the new handler.
C24_ReplacementSparesInFlight ==
  [][\A c \in Calls :
       /\ transactionHandler' # transactionHandler => calls' = calls
       /\ calls[c].pc = "awaitHandler" =>
            /\ calls'[c].invoked = calls[c].invoked
            /\ calls'[c].invocations = 1
       /\ (calls[c].pc = "awaitHandler" /\ calls'[c].pc # "awaitHandler") =>
            /\ calls'[c].writes = 1 <=> calls'[c].verdict = "accepted"
            /\ calls'[c].verdict = "accepted" => calls'[c].pc = "awaitHistory"
       /\ (calls[c].pc = "idle" /\ calls'[c].invocations > 0) =>
            calls'[c].invoked = transactionHandler ]_vars

\* One call wrote to the History Store on the acceptance of the handler it
\* invoked although another handler had replaced that one, which a later
\* call is using.
C24_Witness ==
  \E c, d \in Calls :
    /\ c < d
    /\ calls[c].invoked = "h1" /\ calls[c].pc = "awaitHistory"
    /\ calls[c].writes = 1
    /\ transactionHandler = "h2"
    /\ calls[d].invoked = "h2" /\ calls[d].pc = "awaitHandler"

\* =====================================================================
\* frontend/src/components/auth/protected-route.tsx
\* The component renders from its hooks and state; the effect of lines
\* 26-116 runs after a render whenever session or status (or a prop) has
\* changed, and checkAuth, which has no await, runs in it to the end.
\* =====================================================================
RoleValues == {"", "FARMER", "farmer", "TRADER", "unknown"}
RolesProps == {<<>>, <<"FARMER">>}

Sessions ==
  [exists : {TRUE}, role : RoleValues, needsRoleSelection : BOOLEAN]

\* useSession(): a session exists exactly when the status is authenticated.
SessionStates ==
  {<<"loading", NoSession>>, <<"unauthenticated", NoSession>>}
    \cup {<<"authenticated", s>> : s \in Sessions}

WalletUserDatas ==
  {NoWalletUserData, [kind |-> "invalid", role |-> ""]}
    \cup {[kind |-> "json", role |-> r] : r \in {"", "FARMER", "TRADER"}}

\* String.prototype.toUpperCase on the role strings in use.
ToUpperCase(s) ==
  CASE s = "farmer" -> "FARMER"
    [] s = "unknown" -> "UNKNOWN"
    [] OTHER -> s

NeedsRoleMessage ==
  "Please complete your profile and select a role before continuing."
NoPermissionMessage == "You do not have permission to access this page."

\* lines 29-33: !!walletToken && !!walletUserData
HasWalletAuth(r) == r.walletToken /\ r.walletUserData.kind # "absent"

\* lines 72-83: the role and the flag taken from the session, or from the
\* wallet user data when there is wallet auth and the session has no role;
\* a JSON.parse failure is caught and leaves both as they were.
UsesWalletData(r) ==
  /\ HasWalletAuth(r)
  /\ ~(r.session.exists /\ r.session.role # "")
  /\ r.walletUserData.kind = "json"

UserRole(r) ==
  IF UsesWalletData(r) THEN r.walletUserData.role
  ELSE IF r.session.exists THEN r.session.role ELSE ""

NeedsRoleSelection(r) ==
  IF UsesWalletData(r) THEN FALSE
  ELSE r.session.exists /\ r.session.needsRoleSelection

\* lines 91-92
IsValidRole(r) ==
  LET stringRole == ToUpperCase(UserRole(r))
  IN  stringRole # "" /\ stringRole \notin {"UNDEFINED", "NULL", "UNKNOWN"}

\* line 103: userRole && roles.includes(userRole)
HasRequiredRole(r) ==
  UserRole(r) # "" /\ \E i \in 1..Len(r.roles) : r.roles[i] = UserRole(r)

\* checkAuth, lines 27-113.
checkAuth(r) ==
  IF r.status = "loading" /\ ~HasWalletAuth(r)
    THEN [r EXCEPT !.lastCheck = "loading"]
  ELSE IF r.status = "unauthenticated" /\ ~HasWalletAuth(r) /\ ~r.isAuthPage
    THEN [r EXCEPT !.pushed = @ \cup {"/auth/login"}, !.lastCheck = "login"]
  ELSE IF r.skipRoleCheck
    THEN [r EXCEPT !.authChecked = TRUE, !.admitted = TRUE,
                   !.lastCheck = "skipped"]
  ELSE IF (~IsValidRole(r) \/ NeedsRoleSelection(r)) /\ ~r.allowNoRole
    THEN [r EXCEPT !.authError = NeedsRoleMessage,
                   !.pushed = @ \cup {"/profile"}, !.lastCheck = "needsRole"]
  ELSE IF Len(r.roles) > 0 /\ ~HasRequiredRole(r)
    THEN [r EXCEPT !.authError = NoPermissionMessage,
                   !.pushed = @ \cup {"/"}, !.lastCheck = "denied"]
  ELSE [r EXCEPT !.authChecked = TRUE, !.authError = "", !.admitted = TRUE,
                 !.lastCheck = "passed"]

\* Variant: the render without the authError branch of lines 133-156.
Render_IgnoresAuthError(r) ==
  IF r.status = "loading" \/ ~r.authChecked THEN "spinner"
  ELSE IF r.status = "unauthenticated" THEN "null"
  ELSE "children"

\* What the component renders, lines 118-158.
Render(r) ==
  IF r.status = "loading" \/ ~r.authChecked THEN "spinner"
  ELSE IF r.status = "unauthenticated" THEN "null"
  ELSE IF r.authError # "" THEN "error"
  ELSE "children"

\* A freshly mounted component: state as useState gives it, effect due.
MountedRoutes ==
  { [Unmounted EXCEPT !.mounted = TRUE, !.roles = ro, !.skipRoleCheck = sk,
                      !.allowNoRole = al, !.status = ss[1], !.session = ss[2],
                      !.walletToken = wt, !.walletUserData = wd,
                      !.isAuthPage = ap, !.effectPending = TRUE] :
      ro \in RolesProps, sk \in BOOLEAN, al \in BOOLEAN, ss \in SessionStates,
      wt \in BOOLEAN, wd \in WalletUserDatas, ap \in BOOLEAN }

RouteInit ==
  /\ transactionHandler = NoHandler
  /\ registered = NoHandler
  /\ calls = [c \in Calls |-> NewCall]
  /\ store = {}
  /\ post = PostIdle
  /\ route \in MountedRoutes

\* useSession reports another status or session: the component renders
\* again and the effect, which depends on both (line 116), is due.
SessionChanges ==
  /\ route.mounted
  /\ \E ss \in SessionStates :
       /\ <<route.status, route.session>> # ss
       /\ route' = [route EXCEPT !.status = ss[1], !.session = ss[2],
                                 !.effectPending = TRUE]
  /\ UNCHANGED <<transactionHandler, registered, calls, store, post>>

\* The effect runs checkAuth (line 115).
RunEffect ==
  /\ route.mounted /\ route.effectPending
  /\ route' = [checkAuth(route) EXCEPT !.effectPending = FALSE]
  /\ UNCHANGED <<transactionHandler, registered, calls, store, post>>

RouteNext == SessionChanges \/ RunEffect

RouteSpec == RouteInit /\ [][RouteNext]_vars

\* ---------------------------------------------------------------------
\* Claims about ProtectedRoute
\* ---------------------------------------------------------------------
RoleChecked(r) == Len(r.roles) > 0 /\ ~r.skipRoleCheck

\* C25: the children are rendered only when authChecked is true, the
\* session status is neither loading nor unauthenticated and authError is
\* unset; and with a non-empty roles and no skipRoleCheck they are not
\* rendered once a check has found the user's role not to be in roles.
C25_ChildrenOnlyWhenAdmitted ==
  /\ Render(route) = "children" =>
       /\ route.authChecked
       /\ route.status \notin {"loading", "unauthenticated"}
       /\ route.authError = ""
       /\ route.admitted
  /\ (RoleChecked(route) /\ route.lastCheck = "denied") =>
       Render(route) # "children"

\* A check that passed earlier, then a session whose role is not in roles:
\* authChecked is still true and only authError keeps the children away.
C25_Witness ==
  /\ RoleChecked(route)
  /\ route.lastCheck = "denied"
  /\ ~route.effectPending
  /\ route.authChecked
  /\ route.status = "authenticated"
  /\ Render(route) = "error"

\* Wallet auth with a valid role that roles permits.
WalletAdmitted(r) ==
  /\ HasWalletAuth(r)
  /\ r.walletUserData.kind = "json"
  /\ r.walletUserData.role \notin {"", "unknown"}
  /\ Len(r.roles) > 0 => \E i \in 1..Len(r.roles) : r.roles[i] = r.walletUserData.role

\* C26: a user with a wallet auth token and wallet user data carrying a
\* valid role that roles permits, and a session status of unauthenticated,
\* is not sent to /auth/login and, the check having run, has the children
\* rendered.
C26_WalletUserSeesChildren ==
  (/\ WalletAdmitted(route)
   /\ route.status = "unauthenticated"
   /\ ~route.effectPending) =>
     /\ "/auth/login" \notin route.pushed
     /\ Render(route) = "children"

\* C27: once the check has rejected an authenticated user on role grounds
\* (role missing or to be selected, or role not among roles), the component
\* shows the authError panel and not the loading spinner.
C27_RejectionShowsError ==
  (/\ route.status = "authenticated"
   /\ route.lastCheck \in {"needsRole", "denied"}
   /\ ~route.effectPending) =>
     Render(route) = "error"

\* =====================================================================
\* The register-wallet POST route (unnamed/part_001)
\* One action for each stretch of POST between two awaits:
\*   POST          line 6     (up to await req.json())
\*   JsonSettles   lines 7-50 (up to await fetch)
\*   FetchSettles  lines 53-64 (up to await response.json())
\*   BodySettles   lines 65-80
\* =====================================================================
\* message as a JSON value: a string, or a number.
Messages ==
  {<<"", "string">>, <<"Sign in to AgriChain", "string">>,
   <<"0", "number">>, <<"123", "number">>}

Bodies ==
  {[NoBody EXCEPT !.kind = "invalid"], [NoBody EXCEPT !.kind = "null"]}
    \cup
  { [NoBody EXCEPT !.kind = "object", !.name = n, !.role = r, !.address = a,
                   !.signature = s, !.message = m[1], !.messageType = m[2],
                   !.chainId = ch] :
      n \in {"", "Ani"}, r \in {"", "FARMER"}, a \in {"", "0xA1"},
      s \in {"", "0xsig"}, m \in Messages, ch \in {"", "1"} }

BackendStatuses == {200, 201, 400, 409, 500}

\* JavaScript truthiness of a string, and of message by its type.
Truthy(s) == s # ""
MessageTruthy(b) ==
  IF b.messageType = "number" THEN b.message # "0" ELSE b.message # ""

\* return NextResponse.json({success: ...}, {status})
Respond(p, status, success) ==
  [p EXCEPT !.pc = "done", !.status = status, !.success = success]

\* The catch of lines 92-102.
OuterCatch(p) == Respond(p, 500, "false")

\* The catch of lines 81-91.
FetchCatch(p) == Respond(p, 503, "false")

\* Lines 7-50, resumed when req.json() has settled.
AfterJson(p) ==
  IF p.body.kind = "invalid" THEN OuterCatch(p)          \* req.json() rejects
  ELSE IF p.body.kind = "null" THEN OuterCatch(p)        \* line 7 throws
  ELSE IF MessageTruthy(p.body) /\ p.body.messageType # "string"
    THEN OuterCatch(p)                  \* line 13: message.substring throws
  ELSE IF \/ ~Truthy(p.body.name) \/ ~Truthy(p.body.role)
          \/ ~Truthy(p.body.address) \/ ~Truthy(p.body.signature)
          \/ ~MessageTruthy(p.body)
    THEN Respond(p, 400, "false")                        \* lines 18-30
  ELSE [p EXCEPT !.pc = "fetch", !.fetches = @ + 1]      \* line 37

\* Lines 53-64, resumed when fetch has settled: it threw, gave no
\* response, or gave a response with a status.
AfterFetch(p, outcome, backendStatus) ==
  IF outcome = "threw" THEN FetchCatch(p)
  ELSE IF outcome = "none" THEN Respond(p, 502, "false")
  ELSE [p EXCEPT !.pc = "body", !.backendStatus = backendStatus]

\* Lines 65-80, resumed when response.json() has settled: it threw, or
\* gave null (line 75 throws), or an object whose success is passed on.
AfterBody(p, outcome, success) ==
  IF outcome = "threw" THEN Respond(p, 502, "false")
  ELSE IF outcome = "null" THEN FetchCatch(p)
  ELSE Respond(p, p.backendStatus, success)

PostInit ==
  /\ transactionHandler = NoHandler
  /\ registered = NoHandler
  /\ calls = [c \in Calls |-> NewCall]
  /\ store = {}
  /\ route = Unmounted
  /\ post = PostIdle

POST(body) ==
  /\ post.pc = "idle"
  /\ post' = [post EXCEPT !.pc = "json", !.body = body]
  /\ UNCHANGED <<transactionHandler, registered, calls, store, route>>

JsonSettles ==
  /\ post.pc = "json"
  /\ post' = AfterJson(post)
  /\ UNCHANGED <<transactionHandler, registered, calls, store, route>>

FetchSettles ==
  /\ post.pc = "fetch"
  /\ \E outcome \in {"threw", "none", "response"}, st \in BackendStatuses :
       post' = AfterFetch(post, outcome, st)
  /\ UNCHANGED <<transactionHandler, registered, calls, store, route>>

BodySettles ==
  /\ post.pc = "body"
  /\ \E outcome \in {"threw", "null", "object"},
        success \in {"true", "false", "undefined"} :
       post' = AfterBody(post, outcome, success)
  /\ UNCHANGED <<transactionHandler, registered, calls, store, route>>

PostNext ==
  \/ \E body \in Bodies : POST(body)
  \/ JsonSettles
  \/ FetchSettles
  \/ BodySettles

PostSpec == PostInit /\ [][PostNext]_vars

\* A parsed body in which one of the five required fields is absent or
\* empty.
MissingField(b) ==
  /\ b.kind = "object"
  /\ \/ b.name = "" \/ b.role = "" \/ b.address = "" \/ b.signature = ""
     \/ b.message = ""

\* C28: a request in which any of name, role, address, signature or message
\* is missing or empty is answered with status 400 and success false, and
\* the backend is not contacted for it; the backend is contacted at most
\* once for a request.
C28_MissingFieldIs400 ==
  /\ post.fetches <= 1
  /\ MissingField(post.body) => post.fetches = 0
  /\ (post.pc = "done" /\ MissingField(post.body)) =>
       (post.status = 400 /\ post.success = "false")

\* The part of C28 that concerns the backend alone.
BackendContact ==
  /\ post.fetches <= 1
  /\ MissingField(post.body) => post.fetches = 0

====
